---- MODULE Spec2Model ----
(***************************************************************************)
(* Model of the DeePKS correction engine: the mean-field hook layer        *)
(* (deepks/scf/scf.py: CorrMixin, NetMixin, DSCF, UDSCF) and the analytic  *)
(* gradient engine (deepqc/scf/grad.py: Gradients), and of the iterative   *)
(* training workflow's construction (deepqc/iterate/iterate.py).           *)
(*                                                                         *)
(* Numbers are small integers (exactly representable in double precision), *)
(* tensors are nested functions indexed from 1 (python indexes from 0).    *)
(* A numpy array / torch tensor whose rank matters is the record           *)
(* [a |-> nested entries, ndim |-> rank].                                  *)
(*                                                                         *)
(* Record constructors list their fields in the order in which the names   *)
(* first occur in this module, which is the order TLC normalizes records   *)
(* to: every record value is normalized from its construction on.          *)
(***************************************************************************)
EXTENDS Integers, Sequences, FiniteSets, TLC

\* ------------------------------------------------------------- bounds
\* number of molecular geometries a caller may reset the solver to
NGeom == 2
\* number of sample orbitals the density matrices are built from
NDm == 2
\* largest number of atoms and of local-basis shells of the systems whose
\* tensor shapes are followed through construction and a descriptor query
MaxAtm == 3
MaxShells == 2
\* largest number of iterations a training workflow is built for
MaxIter == 2

\* ------------------------------------------------------------- helpers
\* F(lo) + ... + F(hi)
RECURSIVE SumR(_, _, _)
SumR(F(_), lo, hi) == IF lo > hi THEN 0 ELSE F(lo) + SumR(F, lo + 1, hi)

\* the array <<F(1), ..., F(n)>>
RECURSIVE Tab(_, _)
Tab(F(_), n) == IF n = 0 THEN <<>> ELSE Append(Tab(F, n - 1), F(n))

\* F(val), with val evaluated once
Bind(val, F(_)) == CHOOSE r \in {F(v) : v \in {val}} : TRUE

Abs(n) == IF n < 0 THEN -n ELSE n

\* ------------------------------------------------------------- molecule
\* mol.aoslice_by_atom()[ia, 2:] : the orbital range [bg, ed) owned by each atom
aoslice_by_atom == << <<0, 2>>, <<2, 3>> >>
natm == Len(aoslice_by_atom)
nao == aoslice_by_atom[natm][2]
Atoms == 1..natm
AOs == 1..nao
\* orbitals bg:ed of atom ia (python slice, shifted to 1-based indices)
AOSlice(ia) == (aoslice_by_atom[ia][1] + 1)..(aoslice_by_atom[ia][2])
AtomOf(r) == CHOOSE a \in Atoms : r \in AOSlice(a)

Geoms == 1..NGeom
\* a molecule at geometry g: atom a sits at coordinate (a-1)*g on one axis
Mole(g) == [natm |-> natm, nao |-> nao, coords |-> Tab(LAMBDA a : (a - 1) * g, natm)]

\* local basis: one shell size (2l+1) per shell; every shell of the modelled
\* basis is an s shell, for which the symmetric eigensolver returns the entry itself
shell_sec == <<1, 1>>
Shells == 1..Len(shell_sec)
nproj == SumR(LAMBDA i : shell_sec[i], 1, Len(shell_sec))
ShellOff(k) == SumR(LAMBDA i : shell_sec[i], 1, k - 1)

gen_proj_mol(mol) ==
    [natm |-> mol.natm,
     nao |-> mol.natm * nproj,
     atom |-> Tab(LAMBDA a : <<"Ne", mol.coords[a]>>, mol.natm), basis |-> shell_sec]

\* gto.intor_cross(intor, mol, pmol): the integral provider, a fixed function of
\* the two geometries.  int1e_ovlp has shape [nao x pnao], int1e_ipovlp has
\* shape [3 x nao x pnao].
int1e_ovlp(r, c, mol, pmol) ==
    LET a == ((c - 1) \div nproj) + 1
        j == ((c - 1) % nproj) + 1
    IN  r + j - Abs(mol.coords[AtomOf(r)] - pmol.atom[a][2])

int1e_ipovlp(x, r, c, mol, pmol) ==
    LET a == ((c - 1) \div nproj) + 1
        j == ((c - 1) % nproj) + 1
    IN  x * (mol.coords[AtomOf(r)] - pmol.atom[a][2]) + r - j

proj_intor(intor, mol, pmol) ==
    IF intor = "int1e_ovlp"
    THEN Tab(LAMBDA r : Tab(LAMBDA c : int1e_ovlp(r, c, mol, pmol), pmol.nao), mol.nao)
    ELSE Tab(LAMBDA x : Tab(LAMBDA r :
             Tab(LAMBDA c : int1e_ipovlp(x, r, c, mol, pmol), pmol.nao), mol.nao), 3)

\* proj.reshape(nao, natm, pnao // natm)
proj_ovlp(mol, pmol) ==
    LET w == pmol.nao \div mol.natm
    IN  Bind(proj_intor("int1e_ovlp", mol, pmol), LAMBDA proj :
          Tab(LAMBDA r : Tab(LAMBDA a : Tab(LAMBDA j : proj[r][(a - 1) * w + j], w),
                             mol.natm), mol.nao))

\* torch.split(t, shell_sec, -1) of a [nao x natm x nproj] tensor
split_shells(t) ==
    Tab(LAMBDA k : Tab(LAMBDA r : Tab(LAMBDA a :
            Tab(LAMBDA p : t[r][a][ShellOff(k) + p], shell_sec[k]),
          Len(t[r])), Len(t)), Len(shell_sec))

\* NetMixin.prepare_integrals: the projection molecule and the cached overlaps
prepare_integrals(mol) ==
    Bind(gen_proj_mol(mol), LAMBDA pm :
      Bind(proj_ovlp(mol, pm), LAMBDA t_proj_ovlp :
        [pmol |-> pm, t_ovlp_shells |-> split_shells(t_proj_ovlp)]))

\* ------------------------------------------------------------- numpy helpers
IsNone(x) == "none" \in DOMAIN x
None == [none |-> TRUE]

\* a python exception raised by a call, in place of the value it returns
Raise(name) == [err |-> name]
IsErr(x) == "err" \in DOMAIN x

Shape(x) ==
    IF x.ndim = 2 THEN <<Len(x.a), Len(x.a[1])>>
    ELSE <<Len(x.a), Len(x.a[1]), Len(x.a[1][1])>>

ZeroMat(m) == Tab(LAMBDA r : Tab(LAMBDA s : 0, Len(m[r])), Len(m))
MatAdd(m, n) == Tab(LAMBDA r : Tab(LAMBDA s : m[r][s] + n[r][s], Len(m[r])), Len(m))
MatSub(m, n) == Tab(LAMBDA r : Tab(LAMBDA s : m[r][s] - n[r][s], Len(m[r])), Len(m))

\* np.zeros_like(dm)
zeros_like(x) ==
    IF x.ndim = 2 THEN [a |-> ZeroMat(x.a), ndim |-> 2]
    ELSE [a |-> Tab(LAMBDA b : ZeroMat(x.a[b]), Len(x.a)), ndim |-> 3]

\* variant: the first channel instead of the sum
sum0_first(x) == [a |-> x.a[1], ndim |-> 2]

\* dm.sum(0) of a stacked [2 x nao x nao] array
sum0(x) ==
    [a |-> Tab(LAMBDA r : Tab(LAMBDA s : SumR(LAMBDA b : x.a[b][r][s], 1, Len(x.a)),
                              Len(x.a[1][r])), Len(x.a[1])),
     ndim |-> 2]

\* x + y with numpy broadcasting of a matrix over the leading (spin) axis
np_add(x, y) ==
    IF x.ndim = y.ndim
    THEN IF x.ndim = 2 THEN [a |-> MatAdd(x.a, y.a), ndim |-> 2]
         ELSE [a |-> Tab(LAMBDA b : MatAdd(x.a[b], y.a[b]), Len(x.a)), ndim |-> 3]
    ELSE IF x.ndim = 3
    THEN [a |-> Tab(LAMBDA b : MatAdd(x.a[b], y.a), Len(x.a)), ndim |-> 3]
    ELSE [a |-> Tab(LAMBDA b : MatAdd(x.a, y.a[b]), Len(y.a)), ndim |-> 3]

np_sub(x, y) ==
    IF x.ndim = 2 THEN [a |-> MatSub(x.a, y.a), ndim |-> 2]
    ELSE [a |-> Tab(LAMBDA b : MatSub(x.a[b], y.a[b]), Len(x.a)), ndim |-> 3]

\* ------------------------------------------------------------- density matrices
\* dm = (co * nocc) @ co.T for one occupied orbital with coefficients co
\* the i-th sample vector of orbital coefficients (entries 0..2)
Coef(i) == Tab(LAMBDA r : (i * r + (i \div 2)) % 3, nao)
OccDM(nocc, co) == Tab(LAMBDA r : Tab(LAMBDA s : nocc * co[r] * co[s], nao), nao)
\* spin-restricted solver: one matrix, doubly occupied, from one of n orbitals
RDMs(n) == {[a |-> OccDM(2, Coef(i)), ndim |-> 2] : i \in 1..n}
\* spin-unrestricted solver: two stacked channels, singly occupied, with equal
\* or with different orbitals
UDMs(n) == {[a |-> <<OccDM(1, Coef(ij[1])), OccDM(1, Coef(ij[2]))>>, ndim |-> 3] :
              ij \in {p \in (1..n) \X (1..n) : p[2] \in {p[1], (p[1] % n) + 1}}}
DMs(uhf) == IF uhf THEN UDMs(NDm) ELSE RDMs(NDm)

\* ------------------------------------------------------------- the model (net)
\* a differentiable function from the descriptor [natm x nproj] to an energy:
\*   "lin": weighted sum of the descriptor entries, "sq": sum of their squares
NoNet == [kind |-> "None"]
Nets == {NoNet, [kind |-> "lin"], [kind |-> "sq"]}

model(net, ceig) ==
    SumR(LAMBDA a : SumR(LAMBDA v :
            IF net.kind = "lin" THEN v * ceig[a][v] ELSE ceig[a][v] * ceig[a][v],
         1, nproj), 1, natm)

\* d ec / d ceig, as reverse-mode differentiation of model delivers it
model_grad(net, ceig) ==
    Tab(LAMBDA a : Tab(LAMBDA v : IF net.kind = "lin" THEN v ELSE 2 * ceig[a][v],
                       nproj), natm)

\* ------------------------------------------------------------- descriptor
\* einsum('rap,rs,saq->apq', po, dm, po) for one shell
pdm_shell(po, dm) ==
    Tab(LAMBDA a : Tab(LAMBDA p : Tab(LAMBDA q :
        SumR(LAMBDA r : SumR(LAMBDA s : po[r][a][p] * dm[r][s] * po[s][a][q], 1, nao),
             1, nao),
      Len(po[1][a])), Len(po[1][a])), natm)

\* einsum('rap,...rs,saq->...apq'): a leading batch axis of dm is kept
t_make_pdm(dm, ovlp_shells) ==
    Tab(LAMBDA k :
        IF dm.ndim = 2 THEN pdm_shell(ovlp_shells[k], dm.a)
        ELSE Tab(LAMBDA b : pdm_shell(ovlp_shells[k], dm.a[b]), Len(dm.a)),
      Len(ovlp_shells))

\* torch.symeig(pdm)[0] per atom; a 1 x 1 block has its entry as only eigenvalue
t_shell_eig(pdm) == Tab(LAMBDA a : Tab(LAMBDA v : pdm[a][v][v], Len(pdm[a])), Len(pdm))

\* the shell that holds position j of the concatenated descriptor
ShellAt(j) == CHOOSE i \in Shells : ShellOff(i) < j /\ j <= ShellOff(i) + shell_sec[i]

\* eigenvalues by shell, concatenated along the last axis (dm is a single matrix)
t_make_eig(dm, ovlp_shells) ==
    Bind(t_make_pdm(dm, ovlp_shells), LAMBDA pdm_shells :
      Bind(Tab(LAMBDA k : t_shell_eig(pdm_shells[k]), Len(pdm_shells)), LAMBDA eig_shells :
        Tab(LAMBDA a : Tab(LAMBDA j : eig_shells[ShellAt(j)][a][j - ShellOff(ShellAt(j))],
                           nproj), natm)))

\* ------------------------------------------------------------- correction evaluator
\* backward pass of symeig for one atom block: V diag(g) V^T, with V = 1 for 1 x 1
symeig_backward(g, k, a) ==
    Tab(LAMBDA p : Tab(LAMBDA q : IF p = q THEN g[a][ShellOff(k) + p] ELSE 0,
                       shell_sec[k]), shell_sec[k])

\* variant: a derivative taken over the upper triangle of dm only
pdm_backward_upper(gedm_shells, ovlp_shells) ==
    Tab(LAMBDA r : Tab(LAMBDA s :
        IF r > s THEN 0 ELSE
        SumR(LAMBDA k : SumR(LAMBDA a :
            SumR(LAMBDA p : SumR(LAMBDA q :
                gedm_shells[k][a][p][q] * ovlp_shells[k][r][a][p] * ovlp_shells[k][s][a][q],
              1, shell_sec[k]), 1, shell_sec[k]),
          1, natm), 1, Len(shell_sec)),
      nao), nao)

\* backward pass of the projection einsum: d ec / d dm[r,s]
pdm_backward(gedm_shells, ovlp_shells) ==
    Tab(LAMBDA r : Tab(LAMBDA s :
        SumR(LAMBDA k : SumR(LAMBDA a :
            SumR(LAMBDA p : SumR(LAMBDA q :
                gedm_shells[k][a][p][q] * ovlp_shells[k][r][a][p] * ovlp_shells[k][s][a][q],
              1, shell_sec[k]), 1, shell_sec[k]),
          1, natm), 1, Len(shell_sec)),
      nao), nao)

\* t_get_corr(model, dm, ovlp_shells, with_vc=True) for a single matrix dm
t_get_corr(net, dm, ovlp_shells) ==
    Bind(t_make_eig(dm, ovlp_shells), LAMBDA ceig :
      Bind(model_grad(net, ceig), LAMBDA g :
        Bind(Tab(LAMBDA k : Tab(LAMBDA a : symeig_backward(g, k, a), natm),
                 Len(shell_sec)), LAMBDA gedm :
          [ec |-> model(net, ceig),
           vc |-> [a |-> pdm_backward(gedm, ovlp_shells), ndim |-> dm.ndim]])))

\* variant: no branch for an absent model
get_corr_no_branch(uhf, net, ovlp_shells, dm) ==
    Bind(IF dm.ndim >= 3 /\ uhf THEN sum0(dm) ELSE dm, LAMBDA t_dm :
      Bind(t_get_corr(net, t_dm, ovlp_shells), LAMBDA r :
        [ec |-> r.ec, vc |-> r.vc, nmodel |-> 1]))

\* NetMixin.get_corr; nmodel counts the evaluations of the model
get_corr(uhf, net, ovlp_shells, dm) ==
    IF net = NoNet
    THEN [ec |-> 0, vc |-> zeros_like(dm), nmodel |-> 0]
    ELSE Bind(IF dm.ndim >= 3 /\ uhf THEN sum0(dm) ELSE dm, LAMBDA t_dm :
           Bind(t_get_corr(net, t_dm, ovlp_shells), LAMBDA r :
             [ec |-> r.ec, vc |-> r.vc, nmodel |-> 1]))

\* NetMixin.make_pdm(dm, flatten=False)
make_pdm(ovlp_shells, dm) == t_make_pdm(dm, ovlp_shells)

\* NetMixin.make_eig
make_eig(uhf, ovlp_shells, dm) ==
    Bind(IF dm.ndim >= 3 /\ uhf THEN sum0(dm) ELSE dm, LAMBDA t_dm :
      t_make_eig(t_dm, ovlp_shells))

\* ------------------------------------------------------------- base solver
\* The base mean-field solver is an external collaborator; it is represented by
\* fixed functions of its arguments.  python's default 0 for dm_last / vhf_last
\* is None here.
Tr(m) == SumR(LAMBDA r : m[r][r], 1, Len(m))
Dot(m, n) == SumR(LAMBDA r : SumR(LAMBDA s : m[r][s] * n[s][r], 1, nao), 1, nao)

\* Coulomb/exchange build, linear in the density
jk_one(t, m) ==
    Tab(LAMBDA r : Tab(LAMBDA s : 2 * ((IF r = s THEN t ELSE 0) - m[r][s]), nao), nao)
get_jk(d) ==
    IF d.ndim = 2 THEN [a |-> jk_one(Tr(d.a), d.a), ndim |-> 2]
    ELSE [a |-> Tab(LAMBDA b : jk_one(SumR(LAMBDA c : Tr(d.a[c]), 1, Len(d.a)), d.a[b]),
                    Len(d.a)),
          ndim |-> 3]

\* CorrMixin.get_veff0 = super().get_veff: the incremental (direct) build
\* vhf_last + jk(dm - dm_last)
get_veff0(mol, dm, dm_last, vhf_last) ==
    Bind(IF IsNone(dm_last) THEN dm ELSE np_sub(dm, dm_last), LAMBDA ddm :
      Bind(get_jk(ddm), LAMBDA vjk :
        IF IsNone(vhf_last) THEN vjk
        ELSE np_add([a |-> vhf_last.a, ndim |-> vhf_last.ndim], vjk)))

get_hcore(mol) ==
    Tab(LAMBDA r : Tab(LAMBDA s : 0 - (r + s) - mol.coords[AtomOf(r)], nao), nao)
energy_nuc(mol) == 8 - mol.coords[natm]

\* super().energy_elec(dm, h1e, vhf): e1 + e_coul and e_coul
base_energy_elec(dm, h1e, vhf) ==
    LET e1 == IF dm.ndim = 2 THEN Dot(h1e, dm.a)
              ELSE SumR(LAMBDA b : Dot(h1e, dm.a[b]), 1, Len(dm.a))
        e_coul == (IF dm.ndim = 2 THEN Dot(vhf.a, dm.a)
                   ELSE SumR(LAMBDA b : Dot(vhf.a[b], dm.a[b]), 1, Len(dm.a))) \div 2
    IN  [etot |-> e1 + e_coul, e2 |-> e_coul]

\* CorrMixin.energy_elec0
energy_elec0(mol, dm, h1e, vhf) ==
    base_energy_elec(dm, h1e, IF IsNone(vhf) THEN get_veff0(mol, dm, None, None) ELSE vhf)

\* ------------------------------------------------------------- hook layer
\* variant: the combined potential of the last cycle is handed on
getattr_v0_combined(vhf) == vhf

\* getattr(vhf_last, 'v0', 0)
getattr_v0(vhf) == IF "v0" \in DOMAIN vhf THEN vhf.v0 ELSE None
\* variant: a truth test of the tag, "not getattr(vhf, 'ec', None)"
ec_is_falsy(vhf) == ~("ec" \in DOMAIN vhf) \/ vhf.ec = 0

\* getattr(vhf, 'ec', None) is None
ec_is_None(vhf) == ~("ec" \in DOMAIN vhf)

\* CorrMixin.get_veff: the tagged potential lib.tag_array(v0 + vc, ec=ec, v0=v0);
\* corr is what the call of get_corr returned, ncorr counts the calls of get_corr
get_veff(uhf, net, ovlp_shells, mol, dm, dm_last, vhf_last) ==
    Bind(getattr_v0(vhf_last), LAMBDA v0_last :
      Bind(get_veff0(mol, dm, dm_last, v0_last), LAMBDA v0 :
        Bind(get_corr(uhf, net, ovlp_shells, dm), LAMBDA c :
          Bind(np_add(v0, c.vc), LAMBDA vtot :
            [vhf |-> [a |-> vtot.a, ndim |-> vtot.ndim, ec |-> c.ec, v0 |-> v0],
             corr |-> c, ncorr |-> 1]))))

\* variant: the base energy is evaluated with the combined potential
energy_elec_combined(uhf, net, ovlp_shells, mol, dm, h1e, vhf) ==
    Bind(IsNone(vhf) \/ ec_is_None(vhf), LAMBDA again :
      Bind(IF again
           THEN get_veff(uhf, net, ovlp_shells, mol, dm, None, None)
           ELSE [vhf |-> vhf, ncorr |-> 0], LAMBDA v :
        Bind(energy_elec0(mol, dm, h1e, v.vhf), LAMBDA e0 :
          [vhf |-> v.vhf, etot |-> e0.etot + v.vhf.ec,
           e2 |-> e0.e2 + v.vhf.ec, ncorr |-> v.ncorr, nveff |-> IF again THEN 1 ELSE 0])))

\* CorrMixin.energy_elec
energy_elec(uhf, net, ovlp_shells, mol, dm, h1e, vhf) ==
    Bind(IsNone(vhf) \/ ec_is_None(vhf), LAMBDA again :
      Bind(IF again
           THEN get_veff(uhf, net, ovlp_shells, mol, dm, None, None)
           ELSE [vhf |-> vhf, ncorr |-> 0], LAMBDA v :
        Bind(energy_elec0(mol, dm, h1e, v.vhf.v0), LAMBDA e0 :
          [vhf |-> v.vhf, etot |-> e0.etot + v.vhf.ec,
           e2 |-> e0.e2 + v.vhf.ec, ncorr |-> v.ncorr, nveff |-> IF again THEN 1 ELSE 0])))

\* ------------------------------------------------------------- gradient engine
\* an optional argument that is given: python's atmlst=[...] (atoms from 1)
Some(x) == [v |-> x]
\* range(mol.natm)
range_natm == Tab(LAMBDA k : k, natm)

\* t_make_grad_e_pdm: d ec / d pdm by shells, [natm x nsph x nsph] each
t_make_grad_e_pdm(net, dm, ovlp_shells) ==
    Bind(t_make_eig(dm, ovlp_shells), LAMBDA ceig :
      Bind(model_grad(net, ceig), LAMBDA g :
        Tab(LAMBDA k : Tab(LAMBDA a : symeig_backward(g, k, a), natm), Len(shell_sec))))

\* the Jacobian of one shell before it is symmetrized in p and q:
\* gproj = einsum('xrap,rs,saq->xapq', govx, dm, ovlp); for every atom ia,
\* gdmx[ia] -= einsum('xrap,rs,saq->xapq', govx[:,bg:ed], dm[bg:ed], ovlp) and
\* gdmx[ia,:,ia] += gproj[:,ia]
gdmx_shell(govx, dm, ovlp) ==
    Tab(LAMBDA ia : Tab(LAMBDA x : Tab(LAMBDA a : Tab(LAMBDA p : Tab(LAMBDA q :
        (0 - SumR(LAMBDA r : SumR(LAMBDA s :
                govx[x][r][a][p] * dm[r][s] * ovlp[s][a][q], 1, nao),
              aoslice_by_atom[ia][1] + 1, aoslice_by_atom[ia][2]))
        + (IF a = ia
           THEN SumR(LAMBDA r : SumR(LAMBDA s :
                    govx[x][r][a][p] * dm[r][s] * ovlp[s][a][q], 1, nao), 1, nao)
           ELSE 0),
      Len(ovlp[1][a])), Len(ovlp[1][a])), natm), 3), natm)

\* variant: the Jacobian is not symmetrized in p and q
t_make_grad_pdm_x_nosym(dm, ovlp_shells, ipov_shells) ==
    Tab(LAMBDA k : gdmx_shell(ipov_shells[k], dm.a, ovlp_shells[k]), Len(ovlp_shells))

\* t_make_grad_pdm_x(mol, dm, ovlp_shells, ipov_shells): per shell the tensor
\* [natm (deriv atom) x 3 x natm (proj atom) x nsph x nsph], symmetrized by
\* gdmx += gdmx.transpose(-1, -2)
t_make_grad_pdm_x(dm, ovlp_shells, ipov_shells) ==
    Tab(LAMBDA k :
        Bind(gdmx_shell(ipov_shells[k], dm.a, ovlp_shells[k]), LAMBDA g :
            Tab(LAMBDA ia : Tab(LAMBDA x : Tab(LAMBDA a : Tab(LAMBDA p : Tab(LAMBDA q :
                g[ia][x][a][p][q] + g[ia][x][a][q][p],
              Len(g[ia][x][a])), Len(g[ia][x][a])), natm), 3), natm)),
        Len(ovlp_shells))

\* t_batch_jacobian(calc_eig, pdm, nsph): the derivative of eigenvalue v of atom
\* a's block by its entry (p, q); a 1 x 1 block is its own eigenvalue
t_batch_jacobian_eig(pdm) ==
    Tab(LAMBDA a : Tab(LAMBDA v : Tab(LAMBDA p : Tab(LAMBDA q :
        IF p = v /\ q = v THEN 1 ELSE 0,
      Len(pdm[a])), Len(pdm[a])), Len(pdm[a])), Len(pdm))

\* t_make_grad_eig_x: einsum("bxapq,avpq->bxav", gdmx, gvdm) per shell, then
\* torch.cat(gvx_shells, dim=-1)
t_make_grad_eig_x(dm, ovlp_shells, ipov_shells) ==
    Bind(t_make_pdm(dm, ovlp_shells), LAMBDA pdm_shells :
    Bind(Tab(LAMBDA k : t_batch_jacobian_eig(pdm_shells[k]), Len(pdm_shells)),
         LAMBDA gvdm_shells :
    Bind(t_make_grad_pdm_x(dm, ovlp_shells, ipov_shells), LAMBDA gdmx_shells :
        Tab(LAMBDA b : Tab(LAMBDA x : Tab(LAMBDA a : Tab(LAMBDA j :
            SumR(LAMBDA p : SumR(LAMBDA q :
                gdmx_shells[ShellAt(j)][b][x][a][p][q]
                  * gvdm_shells[ShellAt(j)][a][j - ShellOff(ShellAt(j))][p][q],
              1, shell_sec[ShellAt(j)]), 1, shell_sec[ShellAt(j)]),
          nproj), natm), 3), natm))))

\* einsum('xrap,rs,saq->xapq', govx, dm, ovlp) * 2
grad_inner(govx, dm, ovlp) ==
    Tab(LAMBDA x : Tab(LAMBDA a : Tab(LAMBDA p : Tab(LAMBDA q :
        2 * SumR(LAMBDA r : SumR(LAMBDA s :
                govx[x][r][a][p] * dm[r][s] * ovlp[s][a][q], 1, nao), 1, nao),
      Len(ovlp[1][a])), Len(ovlp[1][a])), natm), 3)

\* variant: the orbital term enters with the sign of the projection term
grad_outer_plus(govx, gedm, ovlp) ==
    Tab(LAMBDA x : Tab(LAMBDA r : Tab(LAMBDA s :
        2 * SumR(LAMBDA a : SumR(LAMBDA p : SumR(LAMBDA q :
                govx[x][r][a][p] * gedm[a][p][q] * ovlp[s][a][q],
              1, Len(ovlp[1][a])), 1, Len(ovlp[1][a])), 1, natm),
      nao), nao), 3)

\* -einsum('xrap,apq,saq->xrs', govx, gedm, ovlp) * 2
grad_outer(govx, gedm, ovlp) ==
    Tab(LAMBDA x : Tab(LAMBDA r : Tab(LAMBDA s :
        0 - 2 * SumR(LAMBDA a : SumR(LAMBDA p : SumR(LAMBDA q :
                govx[x][r][a][p] * gedm[a][p][q] * ovlp[s][a][q],
              1, Len(ovlp[1][a])), 1, Len(ovlp[1][a])), 1, natm),
      nao), nao), 3)

\* variant: row k is computed for atom k instead of atom atmlst[k]
t_grad_corr_rowk(net, dm, ovlp_shells, ipov_shells, atmlst) ==
    Bind(IF IsNone(atmlst) THEN range_natm ELSE atmlst.v, LAMBDA lst :
    Bind(t_make_grad_e_pdm(net, dm, ovlp_shells), LAMBDA gedm_shells :
    Bind(Tab(LAMBDA k : grad_inner(ipov_shells[k], dm.a, ovlp_shells[k]),
             Len(shell_sec)), LAMBDA ginner :
    Bind(Tab(LAMBDA k : grad_outer(ipov_shells[k], gedm_shells[k], ovlp_shells[k]),
             Len(shell_sec)), LAMBDA gouter :
        Tab(LAMBDA k : Tab(LAMBDA x :
            SumR(LAMBDA sh :
                    SumR(LAMBDA p : SumR(LAMBDA q :
                        ginner[sh][x][k][p][q] * gedm_shells[sh][k][p][q],
                      1, shell_sec[sh]), 1, shell_sec[sh])
                  + SumR(LAMBDA r : SumR(LAMBDA s :
                        gouter[sh][x][r][s] * dm.a[r][s],
                      1, nao), aoslice_by_atom[k][1] + 1, aoslice_by_atom[k][2]),
                  1, Len(shell_sec)),
          3), Len(lst))))))

\* t_grad_corr(mol, model, dm, ovlp_shells, ipov_shells, atmlst): [len(atmlst) x 3]
t_grad_corr(net, dm, ovlp_shells, ipov_shells, atmlst) ==
    Bind(IF IsNone(atmlst) THEN range_natm ELSE atmlst.v, LAMBDA lst :
    Bind(t_make_grad_e_pdm(net, dm, ovlp_shells), LAMBDA gedm_shells :
    Bind(Tab(LAMBDA k : grad_inner(ipov_shells[k], dm.a, ovlp_shells[k]),
             Len(shell_sec)), LAMBDA ginner :
    Bind(Tab(LAMBDA k : grad_outer(ipov_shells[k], gedm_shells[k], ovlp_shells[k]),
             Len(shell_sec)), LAMBDA gouter :
        Tab(LAMBDA k : Tab(LAMBDA x :
            SumR(LAMBDA sh :
                    SumR(LAMBDA p : SumR(LAMBDA q :
                        ginner[sh][x][lst[k]][p][q] * gedm_shells[sh][lst[k]][p][q],
                      1, shell_sec[sh]), 1, shell_sec[sh])
                  + SumR(LAMBDA r : SumR(LAMBDA s :
                        gouter[sh][x][r][s] * dm.a[r][s],
                      1, nao), aoslice_by_atom[lst[k]][1] + 1, aoslice_by_atom[lst[k]][2]),
                  1, Len(shell_sec)),
          3), Len(lst))))))

\* Gradients.prepare_integrals: the solver's cached overlaps and the derivative
\* overlaps of the solver's molecule and projection molecule, by shells
Grad_prepare_integrals(g_mol, mf_mol, mf_pmol, mf_ovlp_shells) ==
    LET w == mf_pmol.nao \div g_mol.natm
    IN  Bind(proj_intor("int1e_ipovlp", mf_mol, mf_pmol), LAMBDA ip :
          [t_ovlp_shells |-> mf_ovlp_shells,
           t_ipov_shells |->
              Tab(LAMBDA k : Tab(LAMBDA x : Tab(LAMBDA r : Tab(LAMBDA a :
                  Tab(LAMBDA p : ip[x][r][(a - 1) * w + ShellOff(k) + p], shell_sec[k]),
                g_mol.natm), g_mol.nao), 3), Len(shell_sec))])

\* np.zeros([n, 3])
zeros_n3(n) == Tab(LAMBDA k : <<0, 0, 0>>, n)

\* Gradients.grad_corr; nmodel counts the evaluations of the model
grad_corr(net, g, dm, atmlst) ==
    LET lst == IF IsNone(atmlst) THEN Some(range_natm) ELSE atmlst
    IN  IF net = NoNet
        THEN [nmodel |-> 0, dec |-> zeros_n3(Len(lst.v))]
        ELSE [nmodel |-> 1,
              dec |-> t_grad_corr(net, dm, g.t_ovlp_shells, g.t_ipov_shells, lst)]

\* Gradients.make_grad_pdm_x(dm, flatten): the shells, or with flatten their
\* blocks flattened (s.flatten(-2)) and concatenated along the last axis
make_grad_pdm_x(g, dm, flatten) ==
    Bind(t_make_grad_pdm_x(dm, g.t_ovlp_shells, g.t_ipov_shells), LAMBDA t_gdmx_shells :
        IF ~flatten THEN t_gdmx_shells
        ELSE Tab(LAMBDA b : Tab(LAMBDA x : Tab(LAMBDA a : Tab(LAMBDA j :
                 t_gdmx_shells[ShellAt(j)][b][x][a][1][1],
               nproj), natm), 3), natm))

\* Gradients.make_grad_eig_x(dm)
make_grad_eig_x(g, dm) == t_make_grad_eig_x(dm, g.t_ovlp_shells, g.t_ipov_shells)

\* super().grad_elec and grad_nuc of the base gradient class: fixed functions
base_grad_elec(mol, dm, lst) ==
    Tab(LAMBDA k : Tab(LAMBDA x : x * Tr(dm.a) - mol.coords[lst[k]], 3), Len(lst))
grad_nuc(mol, lst) ==
    Tab(LAMBDA k : Tab(LAMBDA x : mol.coords[lst[k]] - x, 3), Len(lst))
RowsAdd(m, n) == Tab(LAMBDA k : Tab(LAMBDA x : m[k][x] + n[k][x], Len(m[k])), Len(m))

\* variant: what is memorized in dec is the sum that grad_elec returns
grad_elec_memo_sum(net, g, dm, atmlst) ==
    Bind(IF IsNone(atmlst) THEN range_natm ELSE atmlst.v, LAMBDA lst :
      Bind(base_grad_elec(g.mol, dm, lst), LAMBDA de :
        Bind(grad_corr(net, g, dm, atmlst).dec, LAMBDA dec :
          [dec |-> RowsAdd(de, dec), de |-> RowsAdd(de, dec)])))

\* Gradients.grad_elec: base electronic gradient plus the correction, which is
\* memorized in dec (mol.symmetry is off)
grad_elec(net, g, dm, atmlst) ==
    Bind(IF IsNone(atmlst) THEN range_natm ELSE atmlst.v, LAMBDA lst :
      Bind(base_grad_elec(g.mol, dm, lst), LAMBDA de :
        Bind(grad_corr(net, g, dm, atmlst).dec, LAMBDA dec :
          [dec |-> dec, de |-> RowsAdd(de, dec)])))

\* kernel of the gradient object: de = grad_elec + grad_nuc, kept in self.de
Grad_kernel(net, g, dm, atmlst) ==
    Bind(IF IsNone(atmlst) THEN range_natm ELSE atmlst.v, LAMBDA lst :
      Bind(grad_elec(net, g, dm, atmlst), LAMBDA ge :
        [g EXCEPT !.de = Some(RowsAdd(ge.de, grad_nuc(g.mol, lst))),
                  !.dec = Some(ge.dec)]))

\* self.de - self.dec of two [n x 3] arrays under numpy's broadcasting
RowsSub(m, n) ==
    IF Len(m) = Len(n) \/ Len(n) = 1 \/ Len(m) = 1
    THEN [val |-> Tab(LAMBDA k : Tab(LAMBDA x :
                      m[IF Len(m) = 1 THEN 1 ELSE k][x] - n[IF Len(n) = 1 THEN 1 ELSE k][x],
                    3), IF Len(m) = 1 THEN Len(n) ELSE Len(m))]
    ELSE Raise("ValueError")

\* Gradients.get_base
get_base(g) ==
    IF IsNone(g.de) \/ IsNone(g.dec) THEN Raise("AssertionError")
    ELSE RowsSub(g.de.v, g.dec.v)

\* ------------------------------------------------------------- solver object
\* variant: the cached projection integrals are kept
reset_keep(mf, molarg) ==
    [mol |-> IF IsNone(molarg) THEN mf.mol ELSE molarg,
     pmol |-> mf.pmol, t_ovlp_shells |-> mf.t_ovlp_shells]

\* NetMixin.reset(mol): super().reset(mol) keeps the molecule when mol is None,
\* then the projection integrals are prepared again
reset(mf, molarg) ==
    Bind(IF IsNone(molarg) THEN mf.mol ELSE molarg, LAMBDA m :
      Bind(prepare_integrals(m), LAMBDA pi :
        [mol |-> m, pmol |-> pi.pmol, t_ovlp_shells |-> pi.t_ovlp_shells]))

\* Gradients.__init__(mf)
Grad_init(mf) ==
    Bind(Grad_prepare_integrals(mf.mol, mf.mol, mf.pmol, mf.t_ovlp_shells), LAMBDA pi :
      [mol |-> mf.mol, t_ovlp_shells |-> pi.t_ovlp_shells,
       t_ipov_shells |-> pi.t_ipov_shells, dec |-> None, de |-> None])

\* variant: the integrals are refreshed before the solver scanner has run
scanner_call_early(uhf, net, mf, g, mol, dm) ==
    Bind(Grad_prepare_integrals(g.mol, mf.mol, mf.pmol, mf.t_ovlp_shells), LAMBDA pi :
    Bind(reset(mf, mol), LAMBDA mf1 :
    Bind(energy_elec(uhf, net, mf1.t_ovlp_shells, mf1.mol, dm, get_hcore(mf1.mol), None).etot
           + energy_nuc(mf1.mol), LAMBDA e_tot :
    Bind([g EXCEPT !.mol = mol, !.t_ovlp_shells = pi.t_ovlp_shells,
                   !.t_ipov_shells = pi.t_ipov_shells], LAMBDA g2 :
    Bind(Grad_kernel(net, g2, dm, None), LAMBDA g3 :
        [de |-> g3.de.v, mf |-> mf1, e_tot |-> e_tot, grad |-> g3])))))

\* NewScanner.__call__(mol): the solver scanner resets the solver to mol and
\* converges (to the density dm), then the gradient object takes mol, refreshes
\* its integrals and runs its kernel
scanner_call(uhf, net, mf, g, mol, dm) ==
    Bind(reset(mf, mol), LAMBDA mf1 :
    Bind(energy_elec(uhf, net, mf1.t_ovlp_shells, mf1.mol, dm, get_hcore(mf1.mol), None).etot
           + energy_nuc(mf1.mol), LAMBDA e_tot :
    Bind([g EXCEPT !.mol = mol], LAMBDA g1 :
    Bind(Grad_prepare_integrals(g1.mol, mf1.mol, mf1.pmol, mf1.t_ovlp_shells), LAMBDA pi :
    Bind([g1 EXCEPT !.t_ovlp_shells = pi.t_ovlp_shells,
                    !.t_ipov_shells = pi.t_ipov_shells], LAMBDA g2 :
    Bind(Grad_kernel(net, g2, dm, None), LAMBDA g3 :
        [de |-> g3.de.v, mf |-> mf1, e_tot |-> e_tot, grad |-> g3]))))))

\* ------------------------------------------------------------- state
VARIABLES
    uhf,            \* the solver is UDSCF (spin-unrestricted) rather than DSCF
    net,            \* self.net
    mol,            \* self.mol
    pmol,           \* self._pmol
    t_ovlp_shells,  \* self._t_ovlp_shells
    geom,           \* the geometry of the latest construction or reset(mol)
    scf,            \* the running SCF loop's [dm, vhf], None outside a loop
    grad,           \* the gradient object, None before nuc_grad_method()
    ret,            \* the latest call: its arguments and what it returned
    files,          \* the file system of the training procedure: path -> content
    iterate,        \* the workflow built by make_iterate, None before
    executed        \* the steps of the workflow run so far, in order

vars == <<uhf, net, mol, pmol, t_ovlp_shells, geom, scf, grad, ret,
          files, iterate, executed>>

\* a file system without files
NoFiles == [q \in {} |-> None]

self_mf == [mol |-> mol, pmol |-> pmol, t_ovlp_shells |-> t_ovlp_shells]

\* atom lists handed to grad_corr: None, or some distinct atoms in any order
AtmLsts ==
    {None} \cup {Some(l) : l \in {f \in UNION {[1..n -> Atoms] : n \in 0..natm} :
                                    \A i \in DOMAIN f, j \in DOMAIN f : f[i] = f[j] => i = j}}

\* DSCF(mol, model) / UDSCF(mol, model): NetMixin.__init__ ends with
\* prepare_integrals.  Geometries are numbered from the one of construction.
InitSolver ==
    /\ uhf \in BOOLEAN
    /\ net \in Nets
    /\ \E g \in {1} :
         \E pi \in {prepare_integrals(Mole(g))} :
             /\ mol = Mole(g)
             /\ pmol = pi.pmol
             /\ t_ovlp_shells = pi.t_ovlp_shells
             /\ geom = g
    /\ scf = None
    /\ grad = None
    /\ ret = [op |-> "init"]

\* a solver in a process that builds no training workflow
Init ==
    /\ InitSolver
    /\ files = NoFiles
    /\ iterate = None
    /\ executed = << >>

\* mf.reset(mol) by the caller, between SCF runs; g = 0 is reset() without mol
Reset(g) ==
    \E mf1 \in {reset(self_mf, IF g = 0 THEN None ELSE Mole(g))} :
        /\ mol' = mf1.mol
        /\ pmol' = mf1.pmol
        /\ t_ovlp_shells' = mf1.t_ovlp_shells
        /\ geom' = IF g = 0 THEN geom ELSE g
        /\ scf' = None
        /\ ret' = [op |-> "reset"]
        /\ UNCHANGED <<uhf, net, grad, files, iterate, executed>>

\* mf.get_corr(dm)
GetCorr(dm) ==
    \E c \in {get_corr(uhf, net, t_ovlp_shells, dm)} :
        /\ ret' = [dm |-> dm, ec |-> c.ec, vc |-> c.vc, nmodel |-> c.nmodel,
                   op |-> "get_corr"]
        /\ scf' = None
        /\ UNCHANGED <<uhf, net, mol, pmol, t_ovlp_shells, geom, grad, files, iterate, executed>>

\* a make_pdm that releases the cached overlaps after use
MakePdm_release(dm) ==
    /\ ret' = [dm |-> dm, pdm |-> make_pdm(t_ovlp_shells, dm), op |-> "make_pdm"]
    /\ scf' = None
    /\ t_ovlp_shells' = <<>>
    /\ UNCHANGED <<uhf, net, mol, pmol, geom, grad, files, iterate, executed>>

\* mf.make_pdm(dm)
MakePdm(dm) ==
    /\ ret' = [dm |-> dm, pdm |-> make_pdm(t_ovlp_shells, dm), op |-> "make_pdm"]
    /\ scf' = None
    /\ UNCHANGED <<uhf, net, mol, pmol, t_ovlp_shells, geom, grad, files, iterate, executed>>

\* mf.make_eig(dm)
MakeEig(dm) ==
    /\ ret' = [dm |-> dm, op |-> "make_eig", eig |-> make_eig(uhf, t_ovlp_shells, dm)]
    /\ scf' = None
    /\ UNCHANGED <<uhf, net, mol, pmol, t_ovlp_shells, geom, grad, files, iterate, executed>>

\* the SCF loop: vhf = mf.get_veff(mol, dm) at its start, and
\* vhf = mf.get_veff(mol, dm, dm_last, vhf) in every cycle
GetVeff(dm, first) ==
    /\ first \/ ~IsNone(scf)
    /\ \E r \in {IF first
                THEN get_veff(uhf, net, t_ovlp_shells, mol, dm, None, None)
                ELSE get_veff(uhf, net, t_ovlp_shells, mol, dm, scf.dm, scf.vhf)} :
           /\ ret' = [dm |-> dm, dm_last |-> IF first THEN None ELSE scf.dm,
                      vhf |-> r.vhf, corr |-> r.corr, ncorr |-> r.ncorr,
                      op |-> "get_veff"]
           /\ scf' = [dm |-> dm, vhf |-> r.vhf]
    /\ UNCHANGED <<uhf, net, mol, pmol, t_ovlp_shells, geom, grad, files, iterate, executed>>

\* mf.energy_elec(dm, h1e, vhf) in the SCF loop, with the loop's tagged vhf, with
\* vhf=None, or with a plain (untagged) potential
EnergyElec(how) ==
    /\ ~IsNone(scf)
    /\ \E dm \in {scf.dm} :
       \E arg \in {CASE how = "tagged" -> scf.vhf
                     [] how = "plain"  -> get_veff0(mol, dm, None, None)
                     [] OTHER          -> None} :
       \E e \in {energy_elec(uhf, net, t_ovlp_shells, mol, dm, get_hcore(mol), arg)} :
           ret' = [dm |-> dm, vhf |-> e.vhf, etot |-> e.etot, e2 |-> e.e2,
                   ncorr |-> e.ncorr, nveff |-> e.nveff, op |-> "energy_elec", arg |-> arg]
    /\ UNCHANGED <<uhf, net, mol, pmol, t_ovlp_shells, geom, scf, grad, files, iterate, executed>>

\* mf.nuc_grad_method() of the restricted solver: Gradients(mf)
NucGradMethod ==
    /\ ~uhf
    /\ grad' = Grad_init(self_mf)
    /\ ret' = [op |-> "nuc_grad_method"]
    /\ scf' = None
    /\ UNCHANGED <<uhf, net, mol, pmol, t_ovlp_shells, geom, files, iterate, executed>>

\* g.grad_corr(dm, atmlst)
GradCorr(dm, atmlst) ==
    /\ ~IsNone(grad)
    /\ \E r \in {grad_corr(net, grad, dm, atmlst)} :
           ret' = [dm |-> dm, nmodel |-> r.nmodel, ovlp |-> grad.t_ovlp_shells,
                   atmlst |-> atmlst, dec |-> r.dec, op |-> "grad_corr",
                   ipov |-> grad.t_ipov_shells]
    /\ scf' = None
    /\ UNCHANGED <<uhf, net, mol, pmol, t_ovlp_shells, geom, grad, files, iterate, executed>>

\* g.as_scanner()(mol): the solver converges to some density dm at the new geometry
ScannerCall(g, dm) ==
    /\ ~IsNone(grad)
    /\ \E r \in {scanner_call(uhf, net, self_mf, grad, Mole(g), dm)} :
           /\ mol' = r.mf.mol
           /\ pmol' = r.mf.pmol
           /\ t_ovlp_shells' = r.mf.t_ovlp_shells
           /\ grad' = r.grad
           /\ ret' = [dm |-> dm, de |-> r.de, e_tot |-> r.e_tot, geom |-> g,
                      op |-> "scanner"]
    /\ geom' = g
    /\ scf' = None
    /\ UNCHANGED <<uhf, net, files, iterate, executed>>

\* a caller driving the solver: resets, descriptor queries and SCF cycles
Next ==
    \/ \E g \in 0..NGeom : Reset(g)
    \/ \E dm \in DMs(uhf) : GetCorr(dm)
    \/ \E dm \in DMs(uhf) : MakePdm(dm)
    \/ \E dm \in DMs(uhf) : MakeEig(dm)
    \/ \E dm \in DMs(uhf), first \in BOOLEAN : GetVeff(dm, first)
    \/ \E how \in {"tagged", "plain", "none"} : EnergyElec(how)

Spec == Init /\ [][Next]_vars

\* a caller driving the gradient object of the solver
NextGrad ==
    \/ NucGradMethod
    \/ \E dm \in DMs(uhf) : GetCorr(dm)
    \/ \E dm \in DMs(uhf), atmlst \in AtmLsts : GradCorr(dm, atmlst)
    \/ \E g \in Geoms, dm \in DMs(uhf) : ScannerCall(g, dm)

SpecGrad == Init /\ [][NextGrad]_vars

\* g.grad_elec(mo_energy, mo_coeff, mo_occ, atmlst); dm is make_rdm1(mo_coeff, mo_occ)
GradElec(dm, atmlst) ==
    /\ ~IsNone(grad)
    /\ \E r \in {grad_elec(net, grad, dm, atmlst)} :
           /\ grad' = [grad EXCEPT !.dec = Some(r.dec)]
           /\ ret' = [dm |-> dm, atmlst |-> atmlst, op |-> "grad_elec", result |-> r.de]
    /\ scf' = None
    /\ UNCHANGED <<uhf, net, mol, pmol, t_ovlp_shells, geom, files, iterate, executed>>

\* g.kernel(atmlst=atmlst) for the solver's converged density dm
Kernel(dm, atmlst) ==
    /\ ~IsNone(grad)
    /\ \E g1 \in {Grad_kernel(net, grad, dm, atmlst)} :
           /\ grad' = g1
           /\ ret' = [dm |-> dm, atmlst |-> atmlst, op |-> "kernel", result |-> g1.de.v]
    /\ scf' = None
    /\ UNCHANGED <<uhf, net, mol, pmol, t_ovlp_shells, geom, files, iterate, executed>>

\* g.get_base()
GetBase ==
    /\ ~IsNone(grad)
    /\ ret' = [op |-> "get_base", result |-> get_base(grad)]
    /\ scf' = None
    /\ UNCHANGED <<uhf, net, mol, pmol, t_ovlp_shells, geom, grad, files, iterate, executed>>

\* g.make_grad_pdm_x(dm, flatten)
MakeGradPdmX(dm, flatten) ==
    /\ ~IsNone(grad)
    /\ ret' = [dm |-> dm, ovlp |-> grad.t_ovlp_shells, flatten |-> flatten,
               op |-> "make_grad_pdm_x", ipov |-> grad.t_ipov_shells,
               result |-> make_grad_pdm_x(grad, dm, flatten)]
    /\ scf' = None
    /\ UNCHANGED <<uhf, net, mol, pmol, t_ovlp_shells, geom, grad, files, iterate, executed>>

\* g.make_grad_eig_x(dm)
MakeGradEigX(dm) ==
    /\ ~IsNone(grad)
    /\ ret' = [dm |-> dm, ovlp |-> grad.t_ovlp_shells, op |-> "make_grad_eig_x",
               ipov |-> grad.t_ipov_shells, result |-> make_grad_eig_x(grad, dm)]
    /\ scf' = None
    /\ UNCHANGED <<uhf, net, mol, pmol, t_ovlp_shells, geom, grad, files, iterate, executed>>

\* atom lists of the gradient computations: all atoms, or one atom
KernelAtmLsts == {None} \cup {Some(<<a>>) : a \in Atoms}

NextBase ==
    \/ NucGradMethod
    \/ \E dm \in DMs(uhf), atmlst \in KernelAtmLsts : GradElec(dm, atmlst)
    \/ \E dm \in DMs(uhf), atmlst \in KernelAtmLsts : Kernel(dm, atmlst)
    \/ GetBase

SpecBase == Init /\ [][NextBase]_vars

\* a solver that is reset to other geometries while its gradient object lives
\* on: resets of the solver, scanner calls and queries of the gradient object
NextOwner ==
    \/ \E g \in 0..NGeom : Reset(g)
    \/ NucGradMethod
    \/ \E dm \in DMs(uhf) : GradCorr(dm, None)
    \/ \E dm \in DMs(uhf), flatten \in BOOLEAN : MakeGradPdmX(dm, flatten)
    \/ \E dm \in DMs(uhf) : MakeGradEigX(dm)
    \/ \E g \in Geoms, dm \in DMs(uhf) : ScannerCall(g, dm)

SpecOwner == Init /\ [][NextOwner]_vars

\* a caller using one solver and its gradient object side by side: resets,
\* hooks and queries of the solver, forces of the gradient object
NextFrame ==
    \/ \E g \in 0..NGeom : Reset(g)
    \/ \E dm \in DMs(uhf) : GetCorr(dm)
    \/ \E dm \in DMs(uhf) : MakePdm(dm)
    \/ \E dm \in DMs(uhf) : MakeEig(dm)
    \/ \E dm \in DMs(uhf), first \in BOOLEAN : GetVeff(dm, first)
    \/ \E how \in {"tagged", "plain", "none"} : EnergyElec(how)
    \/ NucGradMethod
    \/ \E dm \in DMs(uhf) : GradCorr(dm, None)

SpecFrame == Init /\ [][NextFrame]_vars

\* ------------------------------------------------------------- tensor shapes
\* The construction of a solver and a descriptor query, followed on the shapes
\* of the tensors alone, for a system of n atoms (one orbital per atom) and a
\* local basis with the shell sizes sec.

\* shell sizes 2l+1 of a local basis, l = 0, 1
SecSizes == {1, 3}
Secs == UNION {[1..n -> SecSizes] : n \in 0..MaxShells}

\* python's a // b for non-negative integers
floordiv(x, y) == IF y = 0 THEN Raise("ZeroDivisionError") ELSE [val |-> x \div y]

\* NetMixin.proj_ovlp: proj.reshape(nao, natm, pnao // natm)
proj_ovlp_shape(m_nao, m_natm, pnao) ==
    Bind(floordiv(pnao, m_natm), LAMBDA w :
      IF IsErr(w) THEN w ELSE [shape |-> <<m_nao, m_natm, w.val>>])

\* torch.split(t, sec, -1): one [nao x natm x ss] tensor per shell
split_shapes(shape, sec) ==
    Tab(LAMBDA k : <<shape[1], shape[2], sec[k]>>, Len(sec))

\* NetMixin.prepare_integrals; the projection molecule has sum(sec) functions
\* on each atom.  The integral provider is external: on a projection
\* molecule without basis functions it returns an empty array or fails (ext_ok).
prepare_integrals_shape(n, sec, ext_ok) ==
    LET pnao == n * SumR(LAMBDA i : sec[i], 1, Len(sec))
    IN  IF pnao = 0 /\ ~ext_ok THEN Raise("RuntimeError")
        ELSE Bind(proj_ovlp_shape(n, n, pnao), LAMBDA t :
               IF IsErr(t) THEN t ELSE [shapes |-> split_shapes(t.shape, sec)])

\* t_make_eig: projection per shell [natm x ss x ss], eigenvalues per shell
\* [natm x ss], then torch.cat(eig_shells, dim=-1), which rejects an empty list
t_make_eig_shape(ovlp_shapes) ==
    LET eig_shapes == Tab(LAMBDA k : <<ovlp_shapes[k][2], ovlp_shapes[k][3]>>,
                          Len(ovlp_shapes))
    IN  IF Len(eig_shapes) = 0 THEN Raise("RuntimeError")
        ELSE [shape |-> <<eig_shapes[1][1],
                          SumR(LAMBDA k : eig_shapes[k][2], 1, Len(eig_shapes))>>]

\* DSCF(mol, model).make_eig(dm) for a system of n atoms and the basis sec
ShapeQuery(n, sec, ext_ok) ==
    /\ \E pi \in {prepare_integrals_shape(n, sec, ext_ok)} :
         ret' = [natm |-> n,
                 op |-> "shape_make_eig",
                 result |-> IF IsErr(pi) THEN pi ELSE t_make_eig_shape(pi.shapes),
                 sec |-> sec,
                 ext_ok |-> ext_ok]
    /\ UNCHANGED <<uhf, net, mol, pmol, t_ovlp_shells, geom, scf, grad, files, iterate, executed>>

NextShape ==
    \E n \in 0..MaxAtm, sec \in Secs, ext_ok \in BOOLEAN : ShapeQuery(n, sec, ext_ok)

SpecShape == Init /\ [][NextShape]_vars

\* ------------------------------------------------------------- training workflow
\* python values handed to the workflow's arguments (None is above)
PyBool(b) == [bool |-> b]
PyStr(s) == [str |-> s]
PyDict(d) == [dict |-> d]
PyInt(i) == [int |-> i]

\* bool(x), as `if not data` and `if init_model` evaluate it
truthy(x) ==
    CASE IsNone(x)            -> FALSE
      [] "bool" \in DOMAIN x -> x.bool
      [] "str" \in DOMAIN x  -> x.str # ""
      [] "dict" \in DOMAIN x -> x.dict # << >>
      [] "int" \in DOMAIN x  -> x.int # 0

SCF_ARGS_NAME == "scf_input.yaml"
TRN_ARGS_NAME == "train_input.yaml"
INIT_SCF_NAME == "init_scf.yaml"
INIT_TRN_NAME == "init_train.yaml"
DATA_TRAIN == "data_train"
DATA_TEST == "data_test"
MODEL_FILE == "model.pth"
SCF_STEP_DIR == "00.scf"
TRN_STEP_DIR == "01.train"
RECORD == "RECORD"
DEFAUFT_SYS_TRN == "systems_train.raw"
DEFAUFT_SYS_TST == "systems_test.raw"

\* os.path.join, os.path.exists
path_join(a, b) == a \o "/" \o b
path_exists(fs, path) == path \in DOMAIN fs

\* a file (over)written at path
write_file(fs, path, content) ==
    [q \in DOMAIN fs \cup {path} |-> IF q = path THEN content ELSE fs[q]]

\* deepqc.utils.copy_file(src, dst), deepqc.utils.save_yaml(data, dst)
copy_file(fs, src, dst) == write_file(fs, dst, fs[src])
save_yaml(fs, data, dst) == write_file(fs, dst, [yaml |-> data])

\* check_share_folder(data, name, share_folder): the file system after the call
\* with the returned value, or with the exception raised
check_share_folder(fs, data, name, share_folder) ==
    IF ~truthy(data) THEN [files |-> fs, value |-> None]
    ELSE LET dst_name == path_join(share_folder, name)
         IN  IF data = PyBool(TRUE)
             THEN IF path_exists(fs, dst_name)
                  THEN [files |-> fs, value |-> PyStr(name)]
                  ELSE [err |-> "FileNotFoundError", files |-> fs]
             ELSE IF "str" \in DOMAIN data /\ path_exists(fs, data.str)
             THEN [files |-> copy_file(fs, data.str, dst_name), value |-> PyStr(name)]
             ELSE IF "dict" \in DOMAIN data
             THEN [files |-> save_yaml(fs, data.dict, dst_name), value |-> PyStr(name)]
             ELSE [err |-> "ValueError", files |-> fs]

\* deepqc.iterate.template.make_scf / make_train: the task keeps its arguments
\* (the machine arguments stay at their defaults and pass through unchanged)
make_scf(systems_train, systems_test, no_model, share_folder, source_arg, source_model) ==
    [systems_train |-> systems_train, systems_test |-> systems_test, share_folder |-> share_folder,
     no_model |-> no_model, source_arg |-> source_arg, source_model |-> source_model,
     task |-> "scf", train_dump |-> DATA_TRAIN,
     test_dump |-> DATA_TEST, workdir |-> Some(SCF_STEP_DIR)]

make_train(restart, share_folder, source_arg) ==
    [share_folder |-> share_folder, source_arg |-> source_arg, source_model |-> PyStr(MODEL_FILE),
     task |-> "train", workdir |-> Some(TRN_STEP_DIR),
     restart |-> restart, source_train |-> DATA_TRAIN,
     source_test |-> DATA_TEST, save_model |-> MODEL_FILE]

\* deepqc.task.workflow.Sequence(child_tasks, workdir) and
\* Iteration(task, iternum, workdir, record_file) with set_init_folder, prepend
Sequence(child_tasks, workdir) == [workdir |-> workdir, child_tasks |-> child_tasks]

Iteration(task, iternum, workdir, record_file) ==
    [task |-> task, workdir |-> Some(workdir), iternum |-> iternum,
     record_file |-> record_file, init_folder |-> None, prepended |-> << >>]

set_init_folder(it, init_folder) == [it EXCEPT !.init_folder = Some(init_folder)]
prepend(it, task) == [it EXCEPT !.prepended = <<task>> \o @]

\* a make_iterate whose iterations train before they run the SCF
make_iterate_train_first(fs, systems_train, systems_test, n_iter, workdir, share_folder, scf_args, train_args, init_model, init_scf, init_train) ==
    [files |-> fs,
     iterate |-> Iteration(
         Sequence(<<make_train(TRUE, share_folder, PyStr(TRN_ARGS_NAME)),
                    make_scf(systems_train, systems_test, FALSE, share_folder,
                             PyStr(SCF_ARGS_NAME), PyStr(MODEL_FILE))>>, None),
         n_iter, ".", path_join(workdir, RECORD))]

\* make_iterate(systems_train, systems_test, n_iter, workdir, share_folder,
\*              scf_args, train_args, init_model, init_scf, init_train):
\* the file system after the call with the workflow, or with the exception
make_iterate(fs, systems_train, systems_test, n_iter, workdir, share_folder, scf_args, train_args, init_model, init_scf, init_train) ==
    LET default_train == path_join(share_folder, DEFAUFT_SYS_TRN)
        default_test == path_join(share_folder, DEFAUFT_SYS_TST)
    IN
    IF IsNone(systems_train) /\ ~path_exists(fs, default_train)
    THEN [err |-> "FileNotFoundError", files |-> fs]
    ELSE
    LET sys_train == IF IsNone(systems_train) THEN PyStr(default_train) ELSE systems_train
        sys_test == IF IsNone(systems_test) /\ path_exists(fs, default_test)
                    THEN PyStr(default_test) ELSE systems_test
    IN
    Bind(check_share_folder(fs, scf_args, SCF_ARGS_NAME, share_folder), LAMBDA a :
    IF IsErr(a) THEN a ELSE
    Bind(check_share_folder(a.files, train_args, TRN_ARGS_NAME, share_folder), LAMBDA b :
    IF IsErr(b) THEN b ELSE
    LET scf_step == make_scf(sys_train, sys_test, FALSE, share_folder,
                             a.value, PyStr(MODEL_FILE))
        train_step == make_train(TRUE, share_folder, b.value)
        per_iter == Sequence(<<scf_step, train_step>>, None)
        it0 == Iteration(per_iter, n_iter, ".", path_join(workdir, RECORD))
    IN
    IF truthy(init_model)
    THEN LET init_folder == path_join(share_folder, "init")
         IN  Bind(check_share_folder(b.files, init_model, MODEL_FILE, init_folder),
                  LAMBDA c :
             IF IsErr(c) THEN c
             ELSE [files |-> c.files, iterate |-> set_init_folder(it0, init_folder)])
    ELSE Bind(check_share_folder(b.files, init_scf, INIT_SCF_NAME, share_folder),
              LAMBDA c :
         IF IsErr(c) THEN c ELSE
         Bind(check_share_folder(c.files, init_train, INIT_TRN_NAME, share_folder),
              LAMBDA d :
         IF IsErr(d) THEN d ELSE
         LET scf_init == make_scf(sys_train, sys_test, TRUE, share_folder, c.value, None)
             train_init == make_train(FALSE, share_folder, d.value)
             init_iter == Sequence(<<scf_init, train_init>>, Some("iter.init"))
         IN  [files |-> d.files, iterate |-> prepend(it0, init_iter)]))))

\* iterate.run(): the order in which the workflow runs its steps.  A Sequence
\* runs its children in order in its folder; an Iteration runs what was
\* prepended, then its task iternum times, iteration k in folder iter.k.
IterDir(k) == Some("iter." \o ToString(k))

seq_steps(seq, folder) ==
    Tab(LAMBDA i : [folder |-> folder, step |-> seq.child_tasks[i]], Len(seq.child_tasks))

RECURSIVE flat_steps(_, _)
flat_steps(seqs, folders) ==
    IF Len(seqs) = 0 THEN << >>
    ELSE seq_steps(seqs[1], folders[1]) \o flat_steps(Tail(seqs), Tail(folders))

run_order(it) ==
    flat_steps(it.prepended, Tab(LAMBDA i : it.prepended[i].workdir, Len(it.prepended)))
    \o flat_steps(Tab(LAMBDA k : it.task, it.iternum),
                  Tab(LAMBDA k : IterDir(k - 1), it.iternum))

\* the files a procedure may start from: the caller's own files, and any part
\* of the share folder
UserYaml == "my_scf.yaml"
UserModel == "my_model.pth"
Text(t) == [text |-> t]

ShareFiles ==
    {path_join("share", SCF_ARGS_NAME), path_join("share", TRN_ARGS_NAME),
     path_join("share", INIT_SCF_NAME), path_join("share", INIT_TRN_NAME),
     path_join("share", DEFAUFT_SYS_TRN), path_join("share/init", MODEL_FILE)}

OptionalFiles ==
    {path_join("share", SCF_ARGS_NAME), path_join("share", INIT_SCF_NAME),
     path_join("share", DEFAUFT_SYS_TRN), path_join("share/init", MODEL_FILE)}

StartFiles(missing) ==
    [q \in {UserYaml, UserModel} \cup (ShareFiles \ missing) |-> Text(q)]

\* the procedure starts in a folder with some files, before any workflow exists
InitIter ==
    /\ InitSolver
    /\ ~uhf
    /\ net = NoNet
    /\ files \in {StartFiles(missing) : missing \in SUBSET OptionalFiles}
    /\ iterate = None
    /\ executed = << >>

\* the arguments a caller may hand to check_share_folder
SomeDict == << <<"basis", "ccpvdz">> >>
ArgData ==
    {None, PyBool(FALSE), PyBool(TRUE), PyStr(UserYaml), PyStr("missing.yaml"),
     PyStr(""), PyDict(SomeDict), PyDict(<< >>), PyInt(0), PyInt(3)}

\* check_share_folder(data, name, "share")
CheckShareFolder(data, name) ==
    /\ IsNone(iterate)
    /\ \E r \in {check_share_folder(files, data, name, "share")} :
           /\ files' = r.files
           /\ ret' = [name |-> name, op |-> "check_share_folder", result |-> r,
                      data |-> data, before |-> files]
    /\ UNCHANGED <<uhf, net, mol, pmol, t_ovlp_shells, geom, scf, grad, iterate, executed>>

\* iterate = make_iterate(...)
MakeIterate(systems_train, n_iter, scf_args, init_model, init_scf) ==
    /\ IsNone(iterate)
    /\ \E r \in {make_iterate(files, systems_train, None, n_iter, ".", "share", scf_args,
                               PyBool(TRUE), init_model, init_scf, PyBool(TRUE))} :
           /\ files' = r.files
           /\ iterate' = IF IsErr(r) THEN None ELSE r.iterate
           /\ ret' = [op |-> "make_iterate", n_iter |-> n_iter, init_model |-> init_model,
                      raised |-> IsErr(r)]
    /\ UNCHANGED <<uhf, net, mol, pmol, t_ovlp_shells, geom, scf, grad, executed>>

\* iterate.run() carries out the next step of the workflow
RunStep ==
    /\ ~IsNone(iterate)
    /\ Len(executed) < Len(run_order(iterate))
    /\ executed' = Append(executed, run_order(iterate)[Len(executed) + 1])
    /\ ret' = [ret EXCEPT !.op = "run"]
    /\ UNCHANGED <<uhf, net, mol, pmol, t_ovlp_shells, geom, scf, grad, files, iterate>>

NextIter ==
    \/ \E data \in ArgData, name \in {SCF_ARGS_NAME, INIT_SCF_NAME} :
           CheckShareFolder(data, name)
    \/ \E systems_train \in {None, PyStr("systems/water")}, n_iter \in 0..MaxIter,
          scf_args \in {PyBool(TRUE), PyDict(SomeDict)},
          init_model \in {None, PyBool(FALSE), PyBool(TRUE), PyStr(UserModel)},
          init_scf \in {None, PyBool(TRUE)} :
           MakeIterate(systems_train, n_iter, scf_args, init_model, init_scf)
    \/ RunStep

SpecIter == InitIter /\ [][NextIter]_vars

\* ------------------------------------------------------------- properties
\* a tagged potential without its tags: the plain array
Untag(v) == [a |-> v.a, ndim |-> v.ndim]

\* C1: every get_veff(mol, dm, ...) returns the base solver's effective potential
\* of dm plus the correction potential of get_corr(dm), tagged with ec of that
\* same get_corr(dm) and with v0, the base-only potential.
C1_VeffIsBasePlusCorr ==
    ret.op = "get_veff" =>
        LET c  == get_corr(uhf, net, t_ovlp_shells, ret.dm)
            v0 == get_jk(ret.dm)
        IN  /\ ret.corr = c
            /\ ret.vhf.v0 = v0
            /\ ret.vhf.ec = c.ec
            /\ Untag(ret.vhf) = np_add(v0, c.vc)

\* an SCF cycle after the first one (the density has changed since the last
\* cycle), with a model whose potential is not zero
C1_Witness ==
    /\ ret.op = "get_veff"
    /\ net # NoNet
    /\ ret.corr.vc # zeros_like(ret.corr.vc)
    /\ Untag(ret.vhf) # ret.vhf.v0
    /\ ~IsNone(ret.dm_last)
    /\ ret.dm_last # ret.dm

\* C2: every energy_elec(dm, h1e, vhf) returns the base electronic energy
\* evaluated with the tagged base-only potential vhf.v0 plus the tagged
\* correction energy vhf.ec: the correction is counted once.
C2_EnergyCountsCorrOnce ==
    ret.op = "energy_elec" =>
        LET e0 == base_energy_elec(ret.dm, get_hcore(mol), ret.vhf.v0)
        IN  /\ ret.etot = e0.etot + ret.vhf.ec
            /\ ret.e2 = e0.e2 + ret.vhf.ec
            /\ ret.vhf.v0 = get_jk(ret.dm)
            /\ ret.vhf.ec = get_corr(uhf, net, t_ovlp_shells, ret.dm).ec

\* an energy call with a tagged potential whose correction part carries energy
C2_Witness ==
    /\ ret.op = "energy_elec"
    /\ ret.vhf.ec # 0
    /\ base_energy_elec(ret.dm, get_hcore(mol), Untag(ret.vhf)).etot
         # base_energy_elec(ret.dm, get_hcore(mol), ret.vhf.v0).etot

\* C3: energy_elec recomputes the effective potential, evaluating the correction
\* once, exactly when the supplied potential is None or has no ec tag; with a
\* tagged potential it evaluates the correction zero times and uses its tags.
C3_RecomputeIffUntagged ==
    ret.op = "energy_elec" =>
        LET untagged == IsNone(ret.arg) \/ ~("ec" \in DOMAIN ret.arg)
        IN  /\ untagged => ret.nveff = 1 /\ ret.ncorr = 1
            /\ ~untagged => ret.nveff = 0 /\ ret.ncorr = 0 /\ ret.vhf = ret.arg

\* the SCF loop hands its tagged potential, whose ec is zero, to energy_elec
C3_Witness ==
    /\ ret.op = "energy_elec"
    /\ ~IsNone(ret.arg)
    /\ "ec" \in DOMAIN ret.arg
    /\ ret.arg.ec = 0
    /\ ret.ncorr = 0

\* C4: with no model (net is None), get_corr returns the energy 0 and an
\* all-zero potential of the shape of the density matrix, grad_corr returns an
\* all-zero force with one row per requested atom, and both return without
\* evaluating a model.
C4_NoModelIsZero ==
    net = NoNet =>
        /\ ret.op = "get_corr" =>
                /\ ret.ec = 0
                /\ Shape(ret.vc) = Shape(ret.dm)
                /\ ret.vc = zeros_like(ret.dm)
                /\ ret.nmodel = 0
        /\ ret.op = "grad_corr" =>
                /\ Len(ret.dec) = (IF IsNone(ret.atmlst) THEN natm ELSE Len(ret.atmlst.v))
                /\ \A k \in DOMAIN ret.dec : ret.dec[k] = <<0, 0, 0>>
                /\ ret.nmodel = 0

\* grad_corr for one requested atom, without a model
C4_Witness ==
    /\ net = NoNet
    /\ ret.op = "grad_corr"
    /\ ~IsNone(ret.atmlst)
    /\ Len(ret.atmlst.v) = 1
    /\ Len(ret.dec) = 1

\* C5: after any sequence of reset(mol) and queries (get_corr, get_veff,
\* make_pdm, make_eig), the cached overlaps are those of the geometry of the
\* latest reset and every query result is computed from them.
C5_OverlapsOfLatestReset ==
    LET fresh == prepare_integrals(Mole(geom))
    IN  /\ mol = Mole(geom)
        /\ pmol = fresh.pmol
        /\ t_ovlp_shells = fresh.t_ovlp_shells
        /\ ret.op = "get_corr" =>
                LET c == get_corr(uhf, net, fresh.t_ovlp_shells, ret.dm)
                IN  ret.ec = c.ec /\ ret.vc = c.vc
        /\ ret.op = "get_veff" =>
                ret.corr = get_corr(uhf, net, fresh.t_ovlp_shells, ret.dm)
        /\ ret.op = "make_pdm" => ret.pdm = make_pdm(fresh.t_ovlp_shells, ret.dm)
        /\ ret.op = "make_eig" => ret.eig = make_eig(uhf, fresh.t_ovlp_shells, ret.dm)

\* a descriptor query after a reset to another geometry than the one of
\* construction, where the overlaps of the old geometry give another descriptor
C5_Witness ==
    /\ ret.op = "make_eig"
    /\ geom # 1
    /\ ret.eig # make_eig(uhf, prepare_integrals(Mole(1)).t_ovlp_shells, ret.dm)

\* C6: a call of the gradient scanner runs the solver scanner on the new
\* geometry, sets the gradient object's molecule, refreshes its overlaps and
\* derivative overlaps and only then computes the force: the force of each call
\* is computed with the integrals of that call's geometry.
C6_ScannerUsesCallGeometry ==
    ret.op = "scanner" =>
        LET m  == Mole(ret.geom)
            pi == prepare_integrals(m)
            gi == Grad_prepare_integrals(m, m, pi.pmol, pi.t_ovlp_shells)
            g0 == [mol |-> m, t_ovlp_shells |-> pi.t_ovlp_shells,
                   t_ipov_shells |-> gi.t_ipov_shells, dec |-> None, de |-> None]
        IN  /\ mol = m
            /\ t_ovlp_shells = pi.t_ovlp_shells
            /\ grad.mol = m
            /\ grad.t_ovlp_shells = pi.t_ovlp_shells
            /\ grad.t_ipov_shells = gi.t_ipov_shells
            /\ ret.de = Grad_kernel(net, g0, ret.dm, None).de.v

\* a scanner call at another geometry than the one the gradient object was
\* built at, with a model whose force correction is not zero
C6_Witness ==
    /\ ret.op = "scanner"
    /\ ret.geom # 1
    /\ net # NoNet
    /\ grad.dec.v # zeros_n3(natm)

\* C7: a spin-unrestricted solver computes the descriptor (make_eig) and the
\* correction energy (get_corr) from the sum of the two spin channels; for two
\* identical channels D/2 the descriptor is the one a spin-restricted solver
\* computes from D with the same overlaps.
C7_UhfUsesChannelSum ==
    uhf =>
        LET D == [a |-> MatAdd(ret.dm.a[1], ret.dm.a[2]), ndim |-> 2]
        IN  /\ ret.op = "make_eig" =>
                    /\ ret.eig = t_make_eig(D, t_ovlp_shells)
                    /\ \A i \in 1..NDm :
                          ret.dm.a = <<OccDM(1, Coef(i)), OccDM(1, Coef(i))>> =>
                              ret.eig = make_eig(FALSE, t_ovlp_shells,
                                                 [a |-> OccDM(2, Coef(i)), ndim |-> 2])
            /\ ret.op = "get_corr" /\ net # NoNet =>
                    ret.ec = model(net, t_make_eig(D, t_ovlp_shells))

\* the descriptor of a stacked density matrix of two identical channels
C7_Witness ==
    /\ uhf
    /\ ret.op = "make_eig"
    /\ ret.dm.a[1] = ret.dm.a[2]
    /\ \E a \in Atoms, j \in 1..nproj : ret.eig[a][j] # 0

\* C8 as stated: the potential get_corr returns has the shape of the density
\* matrix it was given, for either kind of solver, with or without a model.
C8_VcHasShapeOfDm ==
    ret.op = "get_corr" => Shape(ret.vc) = Shape(ret.dm)

IsSym(m) == \A r \in DOMAIN m : \A s \in DOMAIN m : m[r][s] = m[s][r]

C10_RowsFollowAtmlst ==
    ret.op = "grad_corr" /\ ~IsNone(ret.atmlst) =>
        LET full == grad_corr(net, grad, ret.dm, None).dec
        IN  /\ Len(ret.dec) = Len(ret.atmlst.v)
            /\ Len(full) = natm
            /\ \A k \in DOMAIN ret.dec : ret.dec[k] = full[ret.atmlst.v[k]]

\* the atoms requested in reverse order, with different forces on them
C10_Witness ==
    /\ ret.op = "grad_corr"
    /\ net # NoNet
    /\ ~IsNone(ret.atmlst)
    /\ Len(ret.atmlst.v) = natm
    /\ ret.atmlst.v[1] = natm
    /\ ret.dec[1] # ret.dec[natm]

\* C11 as stated: a descriptor query on a system with zero atoms or with an
\* empty local basis yields an empty descriptor tensor and raises no error
\* (here even where the external integral provider accepts the empty system).
C11_EmptyDescriptorNoError ==
    ret.op = "shape_make_eig" /\ ret.ext_ok /\ (ret.natm = 0 \/ ret.sec = <<>>) =>
        /\ ~IsErr(ret.result)
        /\ ret.result.shape[1] * ret.result.shape[2] = 0

\* the hooks of the solver and the force query of its gradient object
HookOps == {"get_veff", "energy_elec", "get_corr", "make_pdm", "make_eig", "grad_corr"}

\* C12: get_veff, energy_elec, get_corr, make_pdm, make_eig and grad_corr leave
\* the solver's cached projection overlaps, its projection molecule and its
\* molecule as they were (the local-basis specification shell_sec is a constant
\* of the solver), and the density matrix the caller holds after the call is
\* still one of the caller's matrices; only construction and reset write the cache.
C12_HooksKeepCache ==
    [][ret'.op \in HookOps =>
          /\ UNCHANGED <<t_ovlp_shells, pmol, mol, geom>>
          /\ ret'.dm \in DMs(uhf)]_vars

C12_Witness ==
    /\ ret.op \in HookOps
    /\ geom = 2
    /\ t_ovlp_shells = prepare_integrals(Mole(2)).t_ovlp_shells
    /\ pmol = gen_proj_mol(Mole(2))

\* C13: a workflow built by make_iterate runs, in each of its n_iter iterations,
\* the SCF step (with the model) before the training step (with restart); when
\* init_model is falsy one extra iteration in folder iter.init (SCF without a
\* model, then training without restart) comes before all of them; when
\* init_model is True or a path nothing is prepended and the init folder is
\* share_folder/init; and make_iterate itself has run no step.
C13_ScfThenTrainInitFirst ==
    ~IsNone(iterate) =>
        LET init == ~truthy(ret.init_model)
            off == IF init THEN 2 ELSE 0
        IN  /\ ret.op = "make_iterate" => executed = << >>
            /\ Len(executed) <= off + 2 * ret.n_iter
            /\ \A i \in 1..Len(executed) :
                   LET e == executed[i]
                       k == i - off
                   IN  IF i <= off
                       THEN /\ e.folder = Some("iter.init")
                            /\ IF i = 1
                               THEN /\ e.step.task = "scf"
                                    /\ e.step.no_model
                                    /\ IsNone(e.step.source_model)
                               ELSE /\ e.step.task = "train"
                                    /\ ~e.step.restart
                       ELSE /\ e.folder = IterDir((k - 1) \div 2)
                            /\ IF k % 2 = 1
                               THEN /\ e.step.task = "scf"
                                    /\ ~e.step.no_model
                                    /\ e.step.source_model = PyStr(MODEL_FILE)
                               ELSE /\ e.step.task = "train"
                                    /\ e.step.restart
            /\ ~init => /\ iterate.prepended = << >>
                        /\ iterate.init_folder = Some(path_join("share", "init"))

C13_Witness ==
    /\ ~IsNone(iterate)
    /\ ~truthy(ret.init_model)
    /\ ret.n_iter = MaxIter
    /\ Len(executed) = 2 + 2 * MaxIter

\* C14 as stated: check_share_folder does nothing and returns None for None or
\* False; for True it returns name if share_folder/name exists and raises
\* FileNotFoundError otherwise; for the name of an existing file it copies the
\* file to share_folder/name and returns name; for a dict it saves the dict at
\* share_folder/name and returns name; for any other data it raises and
\* writes nothing.
C14_ShareFolderCases ==
    ret.op = "check_share_folder" =>
        LET data == ret.data
            r == ret.result
            dst_name == path_join("share", ret.name)
            returned(fs, value) == ~IsErr(r) /\ r.value = value /\ files = fs
        IN  CASE IsNone(data) \/ data = PyBool(FALSE) ->
                     returned(ret.before, None)
              [] data = PyBool(TRUE) ->
                     IF path_exists(ret.before, dst_name)
                     THEN returned(ret.before, PyStr(ret.name))
                     ELSE IsErr(r) /\ r.err = "FileNotFoundError" /\ files = ret.before
              [] "str" \in DOMAIN data /\ path_exists(ret.before, data.str) ->
                     returned(write_file(ret.before, dst_name, ret.before[data.str]),
                              PyStr(ret.name))
              [] "dict" \in DOMAIN data ->
                     returned(write_file(ret.before, dst_name, [yaml |-> data.dict]),
                              PyStr(ret.name))
              [] OTHER ->
                     IsErr(r) /\ files = ret.before

C17_GradSeesCurrentGeometry ==
    ret.op \in {"grad_corr", "make_grad_pdm_x", "make_grad_eig_x"} =>
        /\ ret.ovlp = t_ovlp_shells
        /\ ret.ovlp = prepare_integrals(Mole(geom)).t_ovlp_shells
        /\ ret.ipov = Grad_prepare_integrals(mol, mol, pmol, t_ovlp_shells).t_ipov_shells

\* C18: translation invariance.  When the atom list holds every atom once (the
\* orbital ranges of the atoms partition the orbitals), the rows of the force
\* of grad_corr sum to zero in every Cartesian component.
C18_ForceRowsSumToZero ==
    ret.op = "grad_corr" =>
        LET lst == IF IsNone(ret.atmlst) THEN range_natm ELSE ret.atmlst.v
        IN  Len(lst) = natm /\ {lst[k] : k \in 1..Len(lst)} = Atoms =>
                \A x \in 1..3 : SumR(LAMBDA k : ret.dec[k][x], 1, Len(ret.dec)) = 0

C18_Witness ==
    /\ ret.op = "grad_corr"
    /\ net # NoNet
    /\ IsNone(ret.atmlst)
    /\ Len(ret.dec) = natm
    /\ \E x \in 1..3 : ret.dec[1][x] # 0 /\ ret.dec[1][x] + ret.dec[2][x] = 0
    /\ AOSlice(1) \cup AOSlice(2) = AOs

====
